---- MODULE Spec2Model ----
(***************************************************************************)
(* Name resolution through the agentropic facade crate (src/lib.rs).       *)
(*                                                                         *)
(* The crate has no logic of its own: it re-exports two external crates    *)
(* under the names `core` and `messaging`, and merges their preludes into  *)
(* one `prelude` module with two glob re-exports.  The two external crates *)
(* are inputs of the build: the model draws their public symbol tables     *)
(* from bounded sets, builds the facade from them as lib.rs declares it,   *)
(* and then lets a downstream crate use paths through the facade.  Every   *)
(* use is run twice, once through the facade path and once through the     *)
(* component's own path, so that the two can be compared.                  *)
(***************************************************************************)
EXTENDS Integers, Sequences, FiniteSets, TLC

VARIABLES
    coreCrate,   \* the external crate agentropic_core, as supplied to the build
    msgCrate,    \* the external crate agentropic_messaging
    facade,      \* the compiled crate root of lib.rs
    lastUse,     \* the last path a downstream crate used through the facade
    facadeItem,  \* what that path resolved to through the facade
    directItem,  \* what the component's own path resolved to
    fState,      \* component state of the run that goes through the facade
    dState,      \* component state of the run that names the components directly
    fOut,        \* outcome of the last operation invoked through the facade
    dOut         \* outcome of the same operation invoked directly

vars == <<coreCrate, msgCrate, facade, lastUse, facadeItem, directItem,
          fState, dState, fOut, dOut>>

----------------------------------------------------------------------------
(* Bounds *)

\* Items are identified by a number; two names denote the same item iff the
\* numbers are equal (a re-export keeps the identity of the item).
MaxItem == 2

\* The components' state is abstract: a number below NumStates.
NumStates == 2

----------------------------------------------------------------------------
(* The universe of names and items *)

\* The names a component prelude may export, and the names a component's
\* root module may export besides `prelude`.
Names == {"Agent", "Message"}
RootNames == {"Agent"}

Items == 1..MaxItem

\* The two results of a lookup that are no item.
None == 0         \* the name is not exported
Ambiguous == -1   \* E0659: two glob imports disagree about the name

Table(S) == [S -> Items \cup {None}]

\* An external crate: its identity, the public names of its root module and
\* the public names of its `prelude` module (lib.rs lines 24-25 require both
\* crates to have one).
Crate(name) == [name : {name}, root : Table(RootNames), prelude : Table(Names)]

Exported(t) == {n \in DOMAIN t : t[n] \in Items}

\* A path inside a crate: `N` or `prelude::N`.
Paths == {<<n>> : n \in RootNames} \cup {<<"prelude", n>> : n \in Names}

----------------------------------------------------------------------------
(* lib.rs *)

\* A merge in which the first glob shadows the second.
GlobMergeFirstWins(a, b) ==
    [n \in Names |-> IF a[n] = None THEN b[n] ELSE a[n]]

\* A merge in which the last glob shadows the first.
GlobMergeLastWins(a, b) ==
    [n \in Names |-> IF b[n] = None THEN a[n] ELSE b[n]]

\* Two glob imports into one module: a name only one of them brings in
\* resolves to it, a name both bring in resolves if both denote the same item
\* and is ambiguous otherwise.  Globs are not ordered.
GlobMerge(a, b) ==
    [n \in Names |->
        IF a[n] = None THEN b[n]
        ELSE IF b[n] = None THEN a[n]
        ELSE IF a[n] = b[n] THEN a[n]
        ELSE Ambiguous]

\* The alias bound to the wrong crate.
coreAsMessaging(c, m) == m

\* pub use agentropic_core as core;
core(c, m) == c

\* The alias bound to the wrong crate.
messagingAsCore(c, m) == c

\* pub use agentropic_messaging as messaging;
messaging(c, m) == m

\* The public names of a crate's root module, as a table over Names.
RootTable(cr) == [n \in Names |-> IF n \in RootNames THEN cr.root[n] ELSE None]

\* A prelude that globs the crate roots instead of the crates' preludes.
preludeFromRoots(c, m) == GlobMerge(RootTable(c), RootTable(m))

\* A prelude that lacks the second glob.
preludeCoreOnly(c, m) == c.prelude

\* pub mod prelude {
\*     pub use agentropic_core::prelude::*;
\*     pub use agentropic_messaging::prelude::*;
\* }
prelude(c, m) == GlobMerge(c.prelude, m.prelude)

\* A crate root that also globs the core prelude into the root module.
FacadeGlobAtRoot(c, m) ==
    [core |-> core(c, m), messaging |-> messaging(c, m), prelude |-> prelude(c, m),
     Agent |-> c.prelude["Agent"], Message |-> c.prelude["Message"]]

\* The crate root: every public item lib.rs declares, by name.
Facade(c, m) ==
    [core |-> core(c, m), messaging |-> messaging(c, m), prelude |-> prelude(c, m)]

\* The names a downstream crate can write after `agentropic::`.
PublicNames(f) == DOMAIN f

----------------------------------------------------------------------------
(* Path resolution *)

\* `p` resolved inside the external crate `cr`.
ResolveCrate(cr, p) ==
    IF Len(p) = 1 /\ p[1] \in RootNames THEN cr.root[p[1]]
    ELSE IF Len(p) = 2 /\ p[1] = "prelude" /\ p[2] \in Names THEN cr.prelude[p[2]]
    ELSE None

\* `agentropic::p` resolved through the crate root `f`.
ResolveFacade(f, p) ==
    IF Len(p) = 0 \/ p[1] \notin PublicNames(f) THEN None
    ELSE IF p[1] = "prelude"
         THEN IF Len(p) = 2 /\ p[2] \in Names THEN f.prelude[p[2]] ELSE None
         ELSE ResolveCrate(f[p[1]], Tail(p))

\* The component path that `agentropic::prelude::n` stands for: the prelude
\* of the component that exports n.
DirectPrelude(c, m, n) ==
    IF c.prelude[n] # None THEN c.prelude[n] ELSE m.prelude[n]

----------------------------------------------------------------------------
(* The components' behaviour *)

\* The operation an item stands for, as a deterministic step of the abstract
\* component state; the outcome is an error when the state wraps to 0.
Apply(item, s) ==
    LET t == (s + item) % NumStates
    IN  [state |-> t, out |-> IF t = 0 THEN "err" ELSE "ok"]

\* Invoking what a path resolved to.
Invoke(r, s) ==
    IF r \in Items THEN Apply(r, s) ELSE [state |-> s, out |-> "unresolved"]

----------------------------------------------------------------------------
(* The state machine *)

Init ==
    /\ coreCrate \in Crate("agentropic_core")
    /\ msgCrate \in Crate("agentropic_messaging")
    /\ facade = Facade(coreCrate, msgCrate)
    /\ lastUse = <<>>
    /\ facadeItem = None
    /\ directItem = None
    /\ fState = 0
    /\ dState = 0
    /\ fOut = "none"
    /\ dOut = "none"

\* One downstream use: the facade path and the component path are resolved.
\* If the facade path names an item the downstream crate builds, and the item
\* each path resolved to is invoked on its own copy of the state.  If it does
\* not, the downstream crate does not build and nothing runs.
Use(fpath, viaFacade, direct) ==
    /\ lastUse' = fpath
    /\ facadeItem' = viaFacade
    /\ directItem' = direct
    /\ IF viaFacade \in Items
       THEN /\ fState' = Invoke(viaFacade, fState).state
            /\ fOut' = Invoke(viaFacade, fState).out
            /\ dState' = Invoke(direct, dState).state
            /\ dOut' = Invoke(direct, dState).out
       ELSE /\ fOut' = "unresolved"
            /\ dOut' = "unresolved"
            /\ UNCHANGED <<fState, dState>>
    /\ UNCHANGED <<coreCrate, msgCrate, facade>>

\* agentropic::core::p  against  agentropic_core::p
UseCore ==
    \E p \in Paths :
        Use(<<"core">> \o p, ResolveFacade(facade, <<"core">> \o p),
            ResolveCrate(coreCrate, p))

\* agentropic::messaging::p  against  agentropic_messaging::p
UseMessaging ==
    \E p \in Paths :
        Use(<<"messaging">> \o p, ResolveFacade(facade, <<"messaging">> \o p),
            ResolveCrate(msgCrate, p))

\* agentropic::prelude::n  against  the component prelude that exports n
UsePrelude ==
    \E n \in Names :
        Use(<<"prelude", n>>, ResolveFacade(facade, <<"prelude", n>>),
            DirectPrelude(coreCrate, msgCrate, n))

Next == UseCore \/ UseMessaging \/ UsePrelude

Spec == Init /\ [][Next]_vars

----------------------------------------------------------------------------
(* Properties *)

Via(x) == lastUse # <<>> /\ lastUse[1] = x

\* Names both component preludes export, for different items.
Conflicts ==
    {n \in Names : /\ coreCrate.prelude[n] \in Items
                   /\ msgCrate.prelude[n] \in Items
                   /\ coreCrate.prelude[n] # msgCrate.prelude[n]}

\* C1: the alias `core` is the crate agentropic_core and the alias
\* `messaging` is the crate agentropic_messaging: every path resolves through
\* the alias to what it resolves to in the component, an item where the
\* component has one and nothing where it has none, and a downstream use
\* through either alias got the component's own item.
AliasesResolveToComponents ==
    /\ facade.core.name = "agentropic_core"
    /\ facade.messaging.name = "agentropic_messaging"
    /\ \A p \in Paths :
          /\ ResolveFacade(facade, <<"core">> \o p) = ResolveCrate(coreCrate, p)
          /\ ResolveFacade(facade, <<"messaging">> \o p) = ResolveCrate(msgCrate, p)
    /\ (Via("core") \/ Via("messaging")) => facadeItem = directItem

\* A use through `messaging` found an item where the same path in
\* agentropic_core is something else.
AliasUseWitness ==
    /\ Via("messaging")
    /\ facadeItem \in Items
    /\ ResolveCrate(coreCrate, Tail(lastUse)) # facadeItem

\* C2, as stated: every public symbol of either component is exposed by
\* `prelude` as the same item, and the names of `prelude` are the union of
\* the components' public names.
PreludeIsUnionOfPublicSymbols ==
    /\ \A cr \in {coreCrate, msgCrate} : \A p \in Paths :
          ResolveCrate(cr, p) \in Items
              => facade.prelude[p[Len(p)]] = ResolveCrate(cr, p)
    /\ Exported(facade.prelude) =
          UNION {Exported(cr.root) \cup Exported(cr.prelude) :
                     cr \in {coreCrate, msgCrate}}

\* C2, amended: the names of `prelude` are the union of the names of the two
\* component preludes less the names the two export for different items;
\* each resolves to the item of the component prelude that exports it, the
\* conflicting names are ambiguous, and a use through `prelude` got what the
\* merged table holds.
PreludeIsUnionOfComponentPreludes ==
    /\ Exported(facade.prelude) =
          (Exported(coreCrate.prelude) \cup Exported(msgCrate.prelude)) \ Conflicts
    /\ \A n \in Exported(facade.prelude) :
          /\ n \in Exported(coreCrate.prelude) => facade.prelude[n] = coreCrate.prelude[n]
          /\ n \in Exported(msgCrate.prelude) => facade.prelude[n] = msgCrate.prelude[n]
    /\ \A n \in Conflicts : facade.prelude[n] = Ambiguous
    /\ Via("prelude") => facadeItem = facade.prelude[lastUse[2]]

\* A use through `prelude` got an item that only agentropic_messaging's
\* prelude exports, while agentropic_core has a public root symbol that is in
\* no prelude and the other prelude name is a conflict.
PreludeUnionWitness ==
    /\ Via("prelude")
    /\ facadeItem \in Items
    /\ coreCrate.prelude[lastUse[2]] = None
    /\ coreCrate.root["Agent"] \in Items
    /\ coreCrate.prelude["Agent"] = None
    /\ Conflicts # {}

\* C3: the crate root exports the three names core, messaging and prelude
\* and nothing else, whatever the components export.
FacadeInterfaceIsThreeNames ==
    /\ PublicNames(facade) = {"core", "messaging", "prelude"}
    /\ \A x \in {"core", "messaging", "prelude"} : x \in PublicNames(facade)

\* The three names have all been used, with components that export every
\* name they can.
ThreeNamesWitness ==
    /\ Via("prelude")
    /\ fState # 0
    /\ Exported(coreCrate.prelude) = Names
    /\ Exported(msgCrate.prelude) = Names
    /\ Exported(coreCrate.root) = RootNames

\* C4: the run that invokes operations through facade names and the run that
\* invokes them on the components directly are in the same component state
\* and saw the same outcome, after every sequence of uses.
FacadeIsTransparent ==
    /\ fState = dState
    /\ fOut = dOut

\* An operation invoked through `core` succeeded and left the components in
\* a state other than the initial one.
TransparentWitness ==
    /\ Via("core")
    /\ fOut = "ok"
    /\ fState # 0
    /\ ResolveCrate(msgCrate, Tail(lastUse)) \notin {facadeItem, None}

PreludeOnlyFromComponentPreludes ==
    /\ \A n \in Exported(facade.prelude) :
          facade.prelude[n] \in
              ({coreCrate.prelude[n], msgCrate.prelude[n]} \ {None})
    /\ (Via("prelude") /\ facadeItem \in Items) =>
          facadeItem \in ({coreCrate.prelude[lastUse[2]],
                           msgCrate.prelude[lastUse[2]]} \ {None})

\* A use through `prelude` got an item of agentropic_core's prelude under a
\* name that the root of agentropic_core exports for another item.
PreludeOnlyWitness ==
    /\ Via("prelude")
    /\ lastUse[2] = "Agent"
    /\ facadeItem \in Items
    /\ facadeItem = coreCrate.prelude["Agent"]
    /\ coreCrate.root["Agent"] \in Items \ {facadeItem}

\* C7: a name only one component prelude exports resolves to that prelude's
\* item, a name `prelude` exposes that both export denotes one and the same
\* item in both, the merged table is the same with the two globs in the
\* other order, and a use through `prelude` got the table's entry.
PreludeNamesResolveUniquely ==
    /\ \A n \in Names :
          /\ (coreCrate.prelude[n] \in Items /\ msgCrate.prelude[n] = None)
                => facade.prelude[n] = coreCrate.prelude[n]
          /\ (msgCrate.prelude[n] \in Items /\ coreCrate.prelude[n] = None)
                => facade.prelude[n] = msgCrate.prelude[n]
          /\ (n \in Exported(facade.prelude) /\ coreCrate.prelude[n] \in Items
                 /\ msgCrate.prelude[n] \in Items)
                => coreCrate.prelude[n] = msgCrate.prelude[n]
    /\ facade.prelude = GlobMerge(msgCrate.prelude, coreCrate.prelude)
    /\ (Via("prelude") /\ facadeItem \in Items) =>
          facadeItem = GlobMerge(msgCrate.prelude, coreCrate.prelude)[lastUse[2]]

\* A use through `prelude` of a name both preludes export for the same item,
\* while the other name is a conflict.
UniqueWitness ==
    /\ Via("prelude")
    /\ facadeItem \in Items
    /\ coreCrate.prelude[lastUse[2]] = facadeItem
    /\ msgCrate.prelude[lastUse[2]] = facadeItem
    /\ Conflicts # {}

====
